---- MODULE Spec2Model ----
(***************************************************************************)
(* Model of src/src/generate_mdc_files.py: the resumable batch pipeline    *)
(* (ProgressTracker, the work list of process_libraries_json, the thread   *)
(* pool dispatch and its consuming loop) and, further down, the per-item   *)
(* pipeline of process_single_library with its retry and rate-limit        *)
(* decorators.                                                             *)
(***************************************************************************)
EXTENDS Integers, Sequences, FiniteSets, TLC

VARIABLES
    libraries_data,        \* the catalog, flattened in iteration order (536-546)
    target_category,       \* filters of process_libraries_json (486-487)
    target_subcategory,
    target_library,
    tracking_file,         \* content of mdc_generation_progress.json on disk
    file_at_start,         \* the tracking file as the run found it (history)
    progress,              \* ProgressTracker.progress, with the kind of value it holds
    pc,                    \* position of the main thread in process_libraries_json
    libraries_to_process,  \* the work list (534)
    futures,               \* the submitted tasks (571-574)
    consumer,              \* position of the consuming loop inside mark_* / save_progress
    completed_before,      \* keys whose 'completed' mark had been persisted (history)
    exa_client,            \* the lookup client, None without a credential (502)
    now,                   \* clock read by the rate limiter
    num_calls,             \* ratelimit decorator state
    last_reset,
    workers,               \* per-thread position inside process_single_library
    calls,                 \* history of the external calls and limiter admissions
    catalog_file,          \* what main finds at CONFIG["paths"]["libraries_json"]
    test_mode,             \* args.test
    args,                  \* args.workers and args.rate_limit
    CONFIG,                \* the entries of CONFIG that main overrides (610-615)
    documents,             \* the .mdc files under the output directory: path -> text
    test,                  \* position of the test-mode branch (511-531)
    emit                   \* one library name and one rule taken through file emission

inputs   == <<libraries_data, target_category, target_subcategory, target_library,
              file_at_start, catalog_file, test_mode, args>>
runVars  == <<inputs, tracking_file, progress, pc, libraries_to_process, futures,
              consumer, completed_before>>
itemVars == <<exa_client, now, num_calls, last_reset, workers, calls>>
mainVars == <<CONFIG, documents, test, emit>>
vars     == <<runVars, itemVars, mainVars>>

------------------------------------------------------------------------------
(* Bounds of the model *)

\* longest catalog, and most keys in a tracking file at the start of a run
MaxItems == 2
MaxLedger == 2

\* CONFIG["processing"]["max_workers"], CONFIG["api"]["rate_limit_calls"] and
\* CONFIG["api"]["rate_limit_period"]: set by config.yaml (defaults 4, 2000, 60),
\* taken small here; the clock runs from 0 to MaxTime
max_workers == 2
rate_limit_calls == 1
rate_limit_period == 2
MaxTime == 3

\* longest library name, in characters, and longest rule content, in parts,
\* taken through file emission
MaxName == 4
MaxParts == 5

\* CONFIG["api"]["max_retries"]
max_retries == 3

None == "None"

------------------------------------------------------------------------------
(* Data: work items, keys, catalogs, ledgers *)

Item(c, s, l) == [category |-> c, subcategory |-> s, library |-> l]

Items == {Item("c1", "s1", "a"), Item("c1", "s1", "b"),
          Item("c1", "s2", "a"), Item("c2", "s1", "a")}

\* no item: the value of a field that holds an item once there is one
NoItem == Item(None, None, None)

\* f"{category}/{subcategory}/{library}"
library_key(it) == it.category \o "/" \o it.subcategory \o "/" \o it.library

AllKeys == {library_key(it) : it \in Items}

\* A JSON object has each key once: the items of one category are contiguous
\* in iteration order, and so are the items of one subcategory of a category.
\* A list of libraries may name the same library more than once.
WellGrouped(s) ==
    \A i, j, k \in 1..Len(s) :
        (i < j /\ j < k) =>
            /\ (s[i].category = s[k].category => s[j].category = s[i].category)
            /\ (s[i].category = s[k].category /\ s[i].subcategory = s[k].subcategory
                    => s[j].subcategory = s[i].subcategory)

Catalogs == {s \in UNION {[1..n -> Items] : n \in 0..MaxItems} : WellGrouped(s)}

EmptyLedger == [k \in {} |-> "completed"]

Ledgers == UNION {[S -> {"completed", "failed"}] :
                    S \in {T \in SUBSET AllKeys : Cardinality(T) <= MaxLedger}}

PutAlone(m, k, v) == [x \in {k} |-> v]

\* self.progress[library_key] = status
Put(m, k, v) == [x \in (DOMAIN m) \cup {k} |-> IF x = k THEN v ELSE m[x]]

\* self.progress.get(library_key)
Get(m, k) == IF k \in DOMAIN m THEN m[k] ELSE None

\* What the tracking file can hold.  "valid": a JSON object of key -> status;
\* "invalid_json": text json.load rejects; "truncated": the file as open(.., 'w')
\* leaves it until json.dump has written it out (empty or a strict prefix, which
\* json.load rejects too); "undecodable": bytes that are not text in the default
\* encoding; "unreadable": open() raises OSError; "non_mapping": valid JSON that
\* is not an object (a list, a number, a string).
FileOf(kind, m) == [kind |-> kind, data |-> m]

FileKinds == {"missing", "invalid_json", "undecodable", "unreadable", "non_mapping"}

Files == {FileOf(k, EmptyLedger) : k \in FileKinds}
            \cup {FileOf("valid", m) : m \in Ledgers}

------------------------------------------------------------------------------
(* ProgressTracker *)

LoadedAs(kind, m) == [kind |-> kind, map |-> m]

\* ProgressTracker._load_progress: the value it returns, or the exception that
\* leaves it.  Only json.JSONDecodeError is caught (129).
_load_progress(f) ==
    CASE f.kind = "missing"      -> LoadedAs("dict", EmptyLedger)
      [] f.kind = "valid"        -> LoadedAs("dict", f.data)
      [] f.kind = "invalid_json" -> LoadedAs("dict", EmptyLedger)
      [] f.kind = "truncated"    -> LoadedAs("dict", EmptyLedger)
      [] f.kind = "non_mapping"  -> LoadedAs("other", EmptyLedger)
      [] f.kind = "undecodable"  -> LoadedAs("raised", EmptyLedger)
      [] f.kind = "unreadable"   -> LoadedAs("raised", EmptyLedger)

\* ProgressTracker.is_library_processed
IsProcessedIfPresent(m, key) == key \in DOMAIN m

is_library_processed(m, key) == Get(m, key) = "completed"

CompletedKeys(m) == {k \in DOMAIN m : m[k] = "completed"}

------------------------------------------------------------------------------
(* The work list of process_libraries_json (533-560) *)

\* "if target_category and ...": None and the empty string both count as not set
IsSet(t) == t /= None /\ t /= ""

SkippedUnlessAnyMatches(it, tc, ts, tl) ==
    /\ IsSet(tc) \/ IsSet(ts) \/ IsSet(tl)
    /\ ~ \/ (IsSet(tc) /\ it.category = tc)
         \/ (IsSet(ts) /\ it.subcategory = ts)
         \/ (IsSet(tl) /\ it.library = tl)

\* the three "continue" statements of lines 538, 543 and 548
Skipped(it, tc, ts, tl) ==
    \/ (IsSet(tc) /\ it.category /= tc)
    \/ (IsSet(ts) /\ it.subcategory /= ts)
    \/ (IsSet(tl) /\ it.library /= tl)

Surviving(cat, tc, ts, tl) == SelectSeq(cat, LAMBDA it : ~Skipped(it, tc, ts, tl))

WorkListIgnoringLedger(cat, m, tc, ts, tl) == Surviving(cat, tc, ts, tl)

\* libraries_to_process after the loops, for a ledger that is a dict
WorkList(cat, m, tc, ts, tl) ==
    SelectSeq(Surviving(cat, tc, ts, tl),
              LAMBDA it : ~is_library_processed(m, library_key(it)))

Range(s) == {s[i] : i \in DOMAIN s}

------------------------------------------------------------------------------
(* Text.  A string whose characters matter is a sequence of one-character      *)
(* strings: a library name for the file stem, a rule's content for the         *)
(* clean-up of create_mdc_file.                                                *)

RECURSIVE Str(_)
Str(s) == IF s = <<>> THEN "" ELSE Head(s) \o Str(Tail(s))

UpperCase == <<"A", "B", "C", "D", "E", "F", "G", "H", "I", "J", "K", "L", "M",
               "N", "O", "P", "Q", "R", "S", "T", "U", "V", "W", "X", "Y", "Z">>
LowerCase == <<"a", "b", "c", "d", "e", "f", "g", "h", "i", "j", "k", "l", "m",
               "n", "o", "p", "q", "r", "s", "t", "u", "v", "w", "x", "y", "z">>
Digits == {"0", "1", "2", "3", "4", "5", "6", "7", "8", "9"}

\* str.lower(), one character
lower(c) ==
    IF \E i \in DOMAIN UpperCase : UpperCase[i] = c
      THEN LowerCase[CHOOSE i \in DOMAIN UpperCase : UpperCase[i] = c]
      ELSE c

\* the class [a-z0-9-] that the pattern '[^a-z0-9-]+' negates (469)
InClassWithoutDash(c) == c \in Range(LowerCase) \cup Digits

InClass(c) == c \in Range(LowerCase) \cup Digits \cup {"-"}

\* re.sub('[^a-z0-9-]+', '-', s): scanning from the left, each match is the
\* longest run of characters outside the class and becomes one '-'
RECURSIVE re_sub(_)
re_sub(s) ==
    IF s = <<>> THEN <<>>
    ELSE IF InClass(Head(s)) THEN <<Head(s)>> \o re_sub(Tail(s))
    ELSE LET run == CHOOSE n \in 1..Len(s) :
                        /\ \A i \in 1..n : ~InClass(s[i])
                        /\ n = Len(s) \/ InClass(s[n + 1])
         IN  <<"-">> \o re_sub(SubSeq(s, run + 1, Len(s)))

\* str.strip(chars)
RECURSIVE lstrip(_, _)
lstrip(s, chars) ==
    IF s /= <<>> /\ Head(s) \in chars THEN lstrip(Tail(s), chars) ELSE s

RECURSIVE rstrip(_, _)
rstrip(s, chars) ==
    IF s /= <<>> /\ s[Len(s)] \in chars
      THEN rstrip(SubSeq(s, 1, Len(s) - 1), chars) ELSE s

strip(s, chars) == rstrip(lstrip(s, chars), chars)

\* safe_name = re.sub('[^a-z0-9-]+', '-', library.lower()).strip('-')   (469)
safe_name(library) ==
    strip(re_sub([i \in DOMAIN library |-> lower(library[i])]), {"-"})

\* what str.strip() without an argument removes
WhiteSpace == {" ", "\n"}

\* the three backquotes of a code-fence marker, each written "~" here
Fence == <<"~", "~", "~">>
FenceYaml == Fence \o <<"y", "a", "m", "l">>
Delimiter == <<"-", "-", "-">>

\* s[i : i + len(sub)] == sub, i counted from 0 as in Python
MatchAt(s, sub, i) ==
    /\ i + Len(sub) <= Len(s)
    /\ \A k \in 1..Len(sub) : s[i + k] = sub[k]

startswith(s, prefix) == MatchAt(s, prefix, 0)

\* the lowest index >= start at which sub occurs, or -1
RECURSIVE scan(_, _, _)
scan(s, sub, start) ==
    IF start + Len(sub) > Len(s) THEN -1
    ELSE IF MatchAt(s, sub, start) THEN start
    ELSE scan(s, sub, start + 1)

FindIgnoringStart(s, sub, start) == scan(s, sub, 0)

\* str.find(sub, start)
find(s, sub, start) == scan(s, sub, start)

\* str.replace(old, ""): the occurrences of old, left to right and not
\* overlapping, are dropped
RECURSIVE remove_from(_, _, _)
remove_from(s, old, i) ==
    IF i >= Len(s) THEN <<>>
    ELSE IF MatchAt(s, old, i) THEN remove_from(s, old, i + Len(old))
    ELSE <<s[i + 1]>> \o remove_from(s, old, i + 1)

replace(s, old) == remove_from(s, old, 0)

\* create_mdc_file, lines 405-408
clean_content(content) ==
    strip(replace(replace(strip(content, WhiteSpace), FenceYaml), Fence), WhiteSpace)

\* create_mdc_file, lines 411-415
remove_frontmatter(content) ==
    IF startswith(content, Delimiter)
      THEN LET second_marker == find(content, Delimiter, 3)
           IN  IF second_marker /= -1
                 THEN strip(SubSeq(content, second_marker + 3 + 1, Len(content)),
                            WhiteSpace)
                 ELSE content
      ELSE content

\* the rule a synthesis call returns (MDCRule, 102-107)
MDCRule(n, g, d, c) == [name |-> n, glob_pattern |-> g, description |-> d, content |-> c]

\* no rule: the value of a field that holds a rule once a synthesis returned
NoRule == MDCRule(None, None, None, <<>>)

\* create_mdc_file, lines 419-423: the text of the file, the fixed parts and the
\* two interpolated fields as whole pieces, the content character by character
mdc_content(rule) ==
    <<"---\ndescription: ", rule.description, "\nglobs: ", rule.glob_pattern,
      "\n---\n">> \o remove_frontmatter(clean_content(rule.content))

------------------------------------------------------------------------------
(* Output documents *)

\* the library names of the catalogs below, with their characters
LibraryNames == {<<"a">>, <<"b">>, <<"r", "e", "a", "c", "t">>, <<"A", " ", "b">>}

CharsOf(library) == CHOOSE n \in LibraryNames : Str(n) = library

OutputFileUnsanitized(it) ==
    "out/" \o it.category \o "/" \o it.subcategory \o "/" \o it.library \o ".mdc"

\* output_file = subcategory_dir / f"{safe_name}.mdc", under the output
\* directory "out"   (435-437, 469-473)
output_file(it) ==
    "out/" \o it.category \o "/" \o it.subcategory \o "/"
        \o Str(safe_name(CharsOf(it.library))) \o ".mdc"

\* the object a successful synthesis call returns for a library: a plain
\* content for some, and for the others a content that opens with a front-matter
\* block and has code-fence markers around a part of it
Rules(it) ==
    IF it.library \in {"a", "react"}
      THEN {MDCRule("n1", "*.x", "d1", <<"x", " ", "y">>)}
      ELSE {MDCRule("n2", "*.y", "d2",
                    Delimiter \o <<"g">> \o Delimiter \o <<"\n">>
                        \o Fence \o <<"x">> \o Fence \o <<" ", "y", "\n">>)}

NoDocuments == [p \in {} |-> <<>>]

------------------------------------------------------------------------------
(* Actions of a run of process_libraries_json (dispatch mode) *)

IdleConsumer == [pc |-> "idle", cur |-> 0, phase |-> "none"]

\* progress_tracker = ProgressTracker()   (499, 119-132)
ProgressTrackerInit ==
    /\ pc = "tracker"
    /\ progress' = _load_progress(tracking_file)
    /\ pc' = IF progress'.kind = "raised" THEN "error"
             ELSE IF test_mode THEN "test" ELSE "enumerate"
    /\ completed_before' = IF progress'.kind = "dict"
                              THEN CompletedKeys(progress'.map) ELSE {}
    /\ UNCHANGED <<inputs, tracking_file, libraries_to_process,
                   futures, consumer, itemVars, mainVars>>

\* the three nested loops (533-560).  A ledger that is not a dict has no .get:
\* the first surviving item raises AttributeError at line 555.
BuildWorkList ==
    /\ pc = "enumerate"
    /\ LET surv == Surviving(libraries_data, target_category,
                             target_subcategory, target_library)
       IN  IF progress.kind = "dict"
             THEN /\ libraries_to_process' =
                        WorkList(libraries_data, progress.map, target_category,
                                 target_subcategory, target_library)
                  /\ pc' = "submit"
             ELSE /\ libraries_to_process' = <<>>
                  /\ pc' = IF Len(surv) > 0 THEN "error" ELSE "submit"
    /\ UNCHANGED <<inputs, tracking_file, progress, futures, consumer,
                   completed_before, itemVars, mainVars>>

\* a task of the pool; updates, marked and exc record what the consuming loop
\* did with its result: the mark_* calls that returned, the status they
\* persisted, and whether an exception was raised while it was consumed
NewFuture(it) == [item |-> it, state |-> "queued", success |-> FALSE, rule |-> NoRule,
                  updates |-> 0, marked |-> None, exc |-> FALSE]

\* the dict comprehension of executor.submit calls (571-574): one task per
\* element of the work list
SubmitAll ==
    /\ pc = "submit"
    /\ futures' = [i \in 1..Len(libraries_to_process) |->
                        NewFuture(libraries_to_process[i])]
    /\ pc' = "consume"
    /\ UNCHANGED <<inputs, tracking_file, progress, libraries_to_process,
                   consumer, completed_before, itemVars, mainVars>>

Running == {i \in DOMAIN futures : futures[i].state = "running"}
Queued  == {i \in DOMAIN futures : futures[i].state = "queued"}

PoolHasRoomForOneMore == Cardinality(Running) <= CONFIG.max_workers

\* a pool thread takes the oldest queued task; the pool has
\* CONFIG["processing"]["max_workers"] threads (563, 566)
PoolHasRoom == Cardinality(Running) < CONFIG.max_workers

WorkerStart(i) ==
    /\ pc = "consume"
    /\ i \in Queued
    /\ \A j \in Queued : i <= j
    /\ PoolHasRoom
    /\ futures' = [futures EXCEPT ![i].state = "running"]
    /\ UNCHANGED <<inputs, tracking_file, progress, pc,
                   libraries_to_process, consumer, completed_before, itemVars, mainVars>>

\* the steps of process_single_library inside its try block that can raise
\* (the lookup cannot: get_library_best_practices_exa catches everything)
RaiseSteps == {"mkdir", "synthesis", "postprocess", "write"}

\* what process_single_library leaves under the output directory: with
\* outcome "ok" the synthesis returned rule and create_mdc_file wrote its text;
\* with "write" open() created or emptied the file and the write raised; a
\* raise at an earlier step leaves the files alone
Emitted(docs, it, outcome, rule) ==
    CASE outcome = "ok"    -> Put(docs, output_file(it), mdc_content(rule))
      [] outcome = "write" -> Put(docs, output_file(it), <<>>)
      [] OTHER             -> docs

WorkerReturnMarking(i) ==
    /\ pc = "consume"
    /\ i \in Running
    /\ \E outcome \in {"ok"} \cup RaiseSteps : \E rule \in Rules(futures[i].item) :
          /\ futures' = [futures EXCEPT ![i].state = "done",
                                        ![i].success = (outcome = "ok"),
                                        ![i].rule = IF outcome = "ok" THEN rule ELSE NoRule]
          /\ documents' = Emitted(documents, futures[i].item, outcome, rule)
          /\ progress' = [progress EXCEPT !.map =
                              Put(@, library_key(futures[i].item),
                                  IF outcome = "ok" THEN "completed" ELSE "failed")]
          /\ tracking_file' = FileOf("valid", progress'.map)
    /\ UNCHANGED <<inputs, pc, libraries_to_process,
                   consumer, completed_before, itemVars, CONFIG, test, emit>>

\* process_single_library returns (library_key, True), or an internal step
\* raises and the except clause returns (library_key, False)   (432-483)
WorkerReturn(i) ==
    /\ pc = "consume"
    /\ i \in Running
    /\ \E outcome \in {"ok"} \cup RaiseSteps : \E rule \in Rules(futures[i].item) :
          /\ futures' = [futures EXCEPT ![i].state = "done",
                                        ![i].success = (outcome = "ok"),
                                        ![i].rule = IF outcome = "ok" THEN rule ELSE NoRule]
          /\ documents' = Emitted(documents, futures[i].item, outcome, rule)
    /\ UNCHANGED <<inputs, tracking_file, progress, pc, libraries_to_process,
                   consumer, completed_before, itemVars, CONFIG, test, emit>>

\* as_completed yields a finished future; future.result() gives (key, success)
\* and mark_library_completed / mark_library_failed assigns the status
\* (577-584, 145, 150); save_progress follows
ConsumeResult(i) ==
    /\ pc = "consume"
    /\ consumer.pc = "idle"
    /\ i \in DOMAIN futures
    /\ futures[i].state = "done"
    /\ progress' = [progress EXCEPT !.map =
                        Put(@, library_key(futures[i].item),
                            IF futures[i].success THEN "completed" ELSE "failed")]
    /\ consumer' = [pc |-> "open", cur |-> i, phase |-> "try"]
    /\ UNCHANGED <<inputs, tracking_file, pc, libraries_to_process,
                   futures, completed_before, itemVars, mainVars>>

\* save_progress, line 136: open(self.tracking_file, 'w') truncates the file
SaveOpen ==
    /\ pc = "consume"
    /\ consumer.pc = "open"
    /\ tracking_file' = FileOf("truncated", EmptyLedger)
    /\ consumer' = [consumer EXCEPT !.pc = "dump"]
    /\ UNCHANGED <<inputs, progress, pc, libraries_to_process, futures,
                   completed_before, itemVars, mainVars>>

\* save_progress, line 136: open() raises OSError (the file or its directory is
\* not writable).  Inside the try of line 579 the handler of 585-587 runs
\* mark_library_failed for the same key; inside the handler the exception leaves
\* the loop and process_libraries_json.
SaveOpenRaises ==
    /\ pc = "consume"
    /\ consumer.pc = "open"
    /\ IF consumer.phase = "try"
         THEN /\ progress' = [progress EXCEPT !.map =
                      Put(@, library_key(futures[consumer.cur].item), "failed")]
              /\ consumer' = [consumer EXCEPT !.phase = "except"]
              /\ futures' = [futures EXCEPT ![consumer.cur].exc = TRUE]
              /\ pc' = pc
         ELSE /\ pc' = "error"
              /\ consumer' = IdleConsumer
              /\ progress' = progress
              /\ futures' = futures
    /\ UNCHANGED <<inputs, tracking_file, libraries_to_process,
                   completed_before, itemVars, mainVars>>

SaveDumpDeferred ==
    /\ pc = "consume"
    /\ consumer.pc = "dump"
    /\ tracking_file' =
          IF \A i \in DOMAIN futures : i = consumer.cur \/ futures[i].state = "consumed"
            THEN FileOf("valid", progress.map) ELSE tracking_file
    /\ futures' = [futures EXCEPT ![consumer.cur].state = "consumed",
                                  ![consumer.cur].updates = @ + 1,
                                  ![consumer.cur].marked =
                                      progress.map[library_key(futures[consumer.cur].item)]]
    /\ completed_before' = CompletedKeys(progress.map)
    /\ consumer' = IdleConsumer
    /\ UNCHANGED <<inputs, progress, pc, libraries_to_process, itemVars, mainVars>>

\* save_progress, line 137: json.dump writes the whole ledger, the file is
\* closed and mark_* returns
SaveDump ==
    /\ pc = "consume"
    /\ consumer.pc = "dump"
    /\ tracking_file' = FileOf("valid", progress.map)
    /\ futures' = [futures EXCEPT ![consumer.cur].state = "consumed",
                                  ![consumer.cur].updates = @ + 1,
                                  ![consumer.cur].marked =
                                      progress.map[library_key(futures[consumer.cur].item)]]
    /\ completed_before' = CompletedKeys(progress.map)
    /\ consumer' = IdleConsumer
    /\ UNCHANGED <<inputs, progress, pc, libraries_to_process, itemVars, mainVars>>

\* as_completed is exhausted and the executor shuts down (577, 566)
LoopExit ==
    /\ pc = "consume"
    /\ consumer.pc = "idle"
    /\ \A i \in DOMAIN futures : futures[i].state = "consumed"
    /\ pc' = "done"
    /\ UNCHANGED <<inputs, tracking_file, progress, libraries_to_process,
                   futures, consumer, completed_before, itemVars, mainVars>>

\* the process is interrupted (killed, power loss) at any point of the run
Crash ==
    /\ pc \in {"tracker", "enumerate", "submit", "consume"}
    /\ pc' = "crashed"
    /\ UNCHANGED <<inputs, tracking_file, progress, libraries_to_process,
                   futures, consumer, completed_before, itemVars, mainVars>>

\* the next run constructs its ProgressTracker from the file the crash left
Reload ==
    /\ pc = "crashed"
    /\ progress' = _load_progress(tracking_file)
    /\ pc' = "reloaded"
    /\ UNCHANGED <<inputs, tracking_file, libraries_to_process, futures,
                   consumer, completed_before, itemVars, mainVars>>

------------------------------------------------------------------------------
(* main, the loading of the catalog, and the test-mode branch *)

\* "if args.workers:" and "if args.rate_limit:": a flag that was not given
\* (None) and the value 0 leave the configured value   (611-615)
Overridden(configured, arg) ==
    IF arg.given /\ arg.value /= 0 THEN arg.value ELSE configured

\* main up to its call of process_libraries_json (589-631): the overrides are
\* written to CONFIG; without a libraries.json it logs an error and returns
MainStart ==
    /\ pc = "main"
    /\ CONFIG' = [max_workers |-> Overridden(CONFIG.max_workers, args.workers),
                  rate_limit_calls |->
                      Overridden(CONFIG.rate_limit_calls, args.rate_limit)]
    /\ pc' = IF catalog_file = "missing" THEN "aborted" ELSE "load"
    /\ UNCHANGED <<inputs, tracking_file, progress, libraries_to_process, futures,
                   consumer, completed_before, itemVars, documents, test, emit>>

LoadCatalogLenient ==
    /\ pc = "load"
    /\ pc' = "tracker"
    /\ UNCHANGED <<inputs, tracking_file, progress, libraries_to_process, futures,
                   consumer, completed_before, itemVars, mainVars>>

\* process_libraries_json, 490-496: a missing file is logged as an error and the
\* function returns; json.load of a file that cannot be read or parsed raises,
\* and the except clause of main logs the error (647-648)
LoadCatalog ==
    /\ pc = "load"
    /\ pc' = CASE catalog_file = "ok"      -> "tracker"
               [] catalog_file = "missing" -> "aborted"
               [] OTHER                    -> "error"
    /\ UNCHANGED <<inputs, tracking_file, progress, libraries_to_process, futures,
                   consumer, completed_before, itemVars, mainVars>>

TargetWithoutDefault(target, default) == target

\* test_category = target_category or "frontend_frameworks", ...   (513-515)
test_target(target, default) == IF IsSet(target) THEN target ELSE default

TestItem == Item(test_target(target_category, "frontend_frameworks"),
                 test_target(target_subcategory, "react"),
                 test_target(target_library, "react"))

\* the membership tests of lines 518-519
InCatalog(cat, it) == \E i \in DOMAIN cat : cat[i] = it

TestRunConsultingLedger ==
    /\ pc = "test"
    /\ test.pc = "none"
    /\ IF /\ InCatalog(libraries_data, TestItem)
          /\ ~is_library_processed(progress.map, library_key(TestItem))
         THEN \E outcome \in {"ok"} \cup RaiseSteps : \E rule \in Rules(TestItem) :
                /\ test' = [pc |-> "returned", item |-> TestItem,
                            success |-> (outcome = "ok"),
                            rule |-> IF outcome = "ok" THEN rule ELSE NoRule]
                /\ documents' = Emitted(documents, TestItem, outcome, rule)
                /\ pc' = pc
         ELSE /\ test' = [test EXCEPT !.pc = "notfound"]
              /\ documents' = documents
              /\ pc' = "done"
    /\ UNCHANGED <<inputs, tracking_file, progress, libraries_to_process, futures,
                   consumer, completed_before, itemVars, CONFIG, emit>>

\* test mode, 518-529: the designated library is looked up in the catalog; when
\* it is there process_single_library runs in the main thread, when it is not
\* an error is logged and the function returns
TestRun ==
    /\ pc = "test"
    /\ test.pc = "none"
    /\ IF InCatalog(libraries_data, TestItem)
         THEN \E outcome \in {"ok"} \cup RaiseSteps : \E rule \in Rules(TestItem) :
                /\ test' = [pc |-> "returned", item |-> TestItem,
                            success |-> (outcome = "ok"),
                            rule |-> IF outcome = "ok" THEN rule ELSE NoRule]
                /\ documents' = Emitted(documents, TestItem, outcome, rule)
                /\ pc' = pc
         ELSE /\ test' = [test EXCEPT !.pc = "notfound"]
              /\ documents' = documents
              /\ pc' = "done"
    /\ UNCHANGED <<inputs, tracking_file, progress, libraries_to_process, futures,
                   consumer, completed_before, itemVars, CONFIG, emit>>

\* mark_library_completed / mark_library_failed, the assignment (145, 150); a
\* ledger that is not a dict raises TypeError, which leaves the function
TestMark ==
    /\ pc = "test"
    /\ test.pc = "returned"
    /\ IF progress.kind = "dict"
         THEN /\ progress' = [progress EXCEPT !.map =
                      Put(@, library_key(test.item),
                          IF test.success THEN "completed" ELSE "failed")]
              /\ test' = [test EXCEPT !.pc = "open"]
              /\ pc' = pc
         ELSE /\ progress' = progress
              /\ test' = [test EXCEPT !.pc = "raised"]
              /\ pc' = "error"
    /\ UNCHANGED <<inputs, tracking_file, libraries_to_process, futures,
                   consumer, completed_before, itemVars, CONFIG, documents, emit>>

\* save_progress called from test mode: open(.., 'w') truncates   (136)
TestSaveOpen ==
    /\ pc = "test"
    /\ test.pc = "open"
    /\ tracking_file' = FileOf("truncated", EmptyLedger)
    /\ test' = [test EXCEPT !.pc = "dump"]
    /\ UNCHANGED <<inputs, progress, pc, libraries_to_process, futures,
                   consumer, completed_before, itemVars, CONFIG, documents, emit>>

\* open() raises OSError: no handler in the test-mode branch, the exception
\* reaches main
TestSaveOpenRaises ==
    /\ pc = "test"
    /\ test.pc = "open"
    /\ test' = [test EXCEPT !.pc = "raised"]
    /\ pc' = "error"
    /\ UNCHANGED <<inputs, tracking_file, progress, libraries_to_process, futures,
                   consumer, completed_before, itemVars, CONFIG, documents, emit>>

\* json.dump writes the ledger, mark_* returns and so does the function (137, 531)
TestSaveDump ==
    /\ pc = "test"
    /\ test.pc = "dump"
    /\ tracking_file' = FileOf("valid", progress.map)
    /\ completed_before' = CompletedKeys(progress.map)
    /\ test' = [test EXCEPT !.pc = "marked"]
    /\ pc' = "done"
    /\ UNCHANGED <<inputs, progress, libraries_to_process, futures, consumer,
                   itemVars, CONFIG, documents, emit>>

------------------------------------------------------------------------------
(* Specifications of a run *)

\* history: lookups[i] is the number of lookup-service calls made i-1 time units
\* ago; admitted is the number of calls of generate_mdc_rules_from_exa the
\* limiter has let through since its last reset
NoCalls == [lookups |-> [i \in 1..rate_limit_period |-> 0], admitted |-> 0]

ItemIdle ==
    /\ exa_client = None
    /\ now = 0
    /\ num_calls = 0
    /\ last_reset = 0
    /\ workers = <<>>
    /\ calls = NoCalls

\* the value of an integer flag: absent (None in the code), or given with a value
NotGiven == [given |-> FALSE, value |-> 0]

Given(n) == [given |-> TRUE, value |-> n]

\* args without --workers and --rate-limit, CONFIG as load_config returns it,
\* no document written
NoArgs == [workers |-> NotGiven, rate_limit |-> NotGiven]

LoadedConfig == [max_workers |-> max_workers, rate_limit_calls |-> rate_limit_calls]

NoTest == [pc |-> "none", item |-> NoItem, success |-> FALSE, rule |-> NoRule]

NoEmit == [library |-> <<>>, rule |-> NoRule, stage |-> "idle",
           safe_name |-> <<>>, mdc_content |-> <<>>]

\* a run whose catalog was loaded, not in test mode, without overrides
NoOverrides ==
    /\ catalog_file = "ok"
    /\ test_mode = FALSE
    /\ args = NoArgs
    /\ CONFIG = LoadedConfig
    /\ documents = NoDocuments
    /\ test = NoTest

Configured == NoOverrides /\ emit = NoEmit

RunStart ==
    /\ progress = LoadedAs("none", EmptyLedger)
    /\ pc = "tracker"
    /\ libraries_to_process = <<>>
    /\ futures = <<>>
    /\ consumer = IdleConsumer
    /\ completed_before = {}

Targets == {None, ""}

\* a run with every catalog, tracking file and filter setting
InitEnum ==
    /\ libraries_data \in Catalogs
    /\ tracking_file \in Files
    /\ file_at_start = tracking_file
    /\ target_category \in Targets \cup {"c1"}
    /\ target_subcategory \in Targets \cup {"s1"}
    /\ target_library \in Targets \cup {"a"}
    /\ Configured
    /\ RunStart
    /\ ItemIdle

\* a run without filters
Init ==
    /\ libraries_data \in Catalogs
    /\ tracking_file \in Files
    /\ file_at_start = tracking_file
    /\ target_category = None
    /\ target_subcategory = None
    /\ target_library = None
    /\ Configured
    /\ RunStart
    /\ ItemIdle

NextEnum ==
    \/ ProgressTrackerInit
    \/ BuildWorkList
    \/ SubmitAll
    \/ LoopExit

Next ==
    \/ ProgressTrackerInit
    \/ BuildWorkList
    \/ SubmitAll
    \/ \E i \in DOMAIN futures : WorkerStart(i)
    \/ \E i \in DOMAIN futures : WorkerReturn(i)
    \/ \E i \in DOMAIN futures : ConsumeResult(i)
    \/ SaveOpen
    \/ SaveOpenRaises
    \/ SaveDump
    \/ LoopExit
    \/ Crash
    \/ Reload

\* The whole of main: every state of the catalog file, test mode or dispatch,
\* the --workers override.  The catalog names the built-in test library and one
\* library whose name is not its file stem.
MainItems == {Item("frontend_frameworks", "react", "react"), Item("c1", "s1", "A b")}

MainCatalogs ==
    {s \in UNION {[1..n -> MainItems] : n \in 0..MaxItems} : WellGrouped(s)}

MainKeys == {library_key(it) : it \in MainItems}

MainFiles == {FileOf(k, EmptyLedger) : k \in FileKinds}
                \cup {FileOf("valid", m) :
                        m \in UNION {[S -> {"completed", "failed"}] : S \in SUBSET MainKeys}}

CatalogKinds == {"ok", "missing", "malformed", "unreadable"}

MainTargets == {<<None, None, None>>, <<"", "", "">>,
                <<"c1", "s1", "A b">>, <<"c1", None, None>>}

\* a run of main is one of: a catalog file that is missing or cannot be read
\* or parsed; a test-mode run; a dispatch run, here with or without a category
\* filter and with or without the --workers override
InitMain ==
    /\ tracking_file \in MainFiles
    /\ file_at_start = tracking_file
    /\ \E t \in MainTargets :
          target_category = t[1] /\ target_subcategory = t[2] /\ target_library = t[3]
    /\ \/ /\ catalog_file \in CatalogKinds \ {"ok"}
          /\ libraries_data = <<>>
          /\ test_mode \in BOOLEAN
          /\ args \in [workers : {NotGiven, Given(0), Given(1)}, rate_limit : {NotGiven}]
       \/ /\ catalog_file = "ok"
          /\ libraries_data \in MainCatalogs
          /\ test_mode = TRUE
          /\ args = NoArgs
       \/ /\ catalog_file = "ok"
          /\ libraries_data \in MainCatalogs
          /\ test_mode = FALSE
          /\ target_subcategory = None
          /\ args \in [workers : {NotGiven, Given(1)}, rate_limit : {NotGiven}]
       \/ /\ catalog_file = "ok"
          /\ libraries_data \in MainCatalogs
          /\ test_mode = FALSE
          /\ ~IsSet(target_category)
          /\ tracking_file.kind = "missing"
          /\ args = [workers |-> Given(0), rate_limit |-> NotGiven]
    /\ CONFIG = LoadedConfig
    /\ documents = NoDocuments
    /\ test = NoTest
    /\ emit = NoEmit
    /\ progress = LoadedAs("none", EmptyLedger)
    /\ pc = "main"
    /\ libraries_to_process = <<>>
    /\ futures = <<>>
    /\ consumer = IdleConsumer
    /\ completed_before = {}
    /\ ItemIdle

NextMain ==
    \/ MainStart
    \/ LoadCatalog
    \/ ProgressTrackerInit
    \/ TestRun
    \/ TestMark
    \/ TestSaveOpen
    \/ TestSaveOpenRaises
    \/ TestSaveDump
    \/ BuildWorkList
    \/ SubmitAll
    \/ \E i \in DOMAIN futures : WorkerStart(i)
    \/ \E i \in DOMAIN futures : WorkerReturn(i)
    \/ \E i \in DOMAIN futures : ConsumeResult(i)
    \/ SaveOpen
    \/ SaveOpenRaises
    \/ SaveDump
    \/ LoopExit

SpecEnum == InitEnum /\ [][NextEnum]_vars

SpecMain == InitMain /\ [][NextMain]_vars

Spec == Init /\ [][Next]_vars

------------------------------------------------------------------------------
(* Claims about the work list and the dispatch run *)

NoFilters ==
    ~IsSet(target_category) /\ ~IsSet(target_subcategory) /\ ~IsSet(target_library)

WorkKeys == {library_key(it) : it \in Range(libraries_to_process)}

CatalogKeys == {library_key(it) : it \in Range(libraries_data)}

\* C1: with no filter set, the work list built from catalog C and loaded ledger L
\* holds no key that L marks 'completed' and holds every key of C that is absent
\* from L or marked 'failed' in L.
C1_IdempotentResume ==
    (pc = "submit" /\ progress.kind = "dict" /\ NoFilters) =>
        /\ \A k \in WorkKeys : Get(progress.map, k) /= "completed"
        /\ \A k \in CatalogKeys :
              (k \notin DOMAIN progress.map \/ progress.map[k] = "failed")
                  => k \in WorkKeys

C1_Witness ==
    /\ pc = "submit" /\ progress.kind = "dict" /\ NoFilters
    /\ \E k \in CatalogKeys : Get(progress.map, k) = "completed" /\ k \notin WorkKeys
    /\ \E k \in CatalogKeys : Get(progress.map, k) = "failed" /\ k \in WorkKeys

TasksOf(k) == {i \in DOMAIN futures : library_key(futures[i].item) = k}

\* C2: when the processing of key K raised at an internal step of
\* process_single_library, the run ends with K marked 'failed' in the ledger,
\* and a key the run had no task for keeps the status it was loaded with.
C2_PartialFailureIsolation ==
    pc = "done" =>
        \A k \in AllKeys :
            IF \E i \in TasksOf(k) : ~futures[i].success
              THEN Get(progress.map, k) = "failed"
              ELSE TasksOf(k) = {} =>
                     Get(progress.map, k) = Get(_load_progress(file_at_start).map, k)

\* C3: after an interruption at any point of the run, the next load of the
\* tracking file still reports 'completed' for every key whose completed mark
\* had been persisted before the interruption.
C3_CrashDurability ==
    pc = "reloaded" => completed_before \subseteq CompletedKeys(progress.map)

\* C7: each work key is submitted to the pool at most once per run, so no two
\* workers process the same key at the same time.
C7_PerKeyExclusivity ==
    /\ \A i, j \in DOMAIN futures :
          i /= j => library_key(futures[i].item) /= library_key(futures[j].item)
    /\ \A i, j \in Running :
          i /= j => library_key(futures[i].item) /= library_key(futures[j].item)

AllFilteredOut ==
    \A it \in Range(libraries_data) :
        \/ (IsSet(target_category) /\ it.category /= target_category)
        \/ (IsSet(target_subcategory) /\ it.subcategory /= target_subcategory)
        \/ (IsSet(target_library) /\ it.library /= target_library)

Enumerated == pc \notin {"tracker", "enumerate"} /\ progress.kind \in {"dict", "other"}

\* C8: every item of the work list matches every filter that is set (category,
\* subcategory, library; AND); when enumeration filters every item out, the work
\* list is empty, nothing is submitted, the run does not end in an error, and the
\* ledger in memory and on disk is as it was loaded.
C8_FilterCorrectness ==
    /\ \A it \in Range(libraries_to_process) :
          /\ IsSet(target_category) => it.category = target_category
          /\ IsSet(target_subcategory) => it.subcategory = target_subcategory
          /\ IsSet(target_library) => it.library = target_library
    /\ (Enumerated /\ AllFilteredOut) =>
          /\ libraries_to_process = <<>>
          /\ futures = <<>>
          /\ pc \in {"submit", "consume", "done"}
          /\ tracking_file = file_at_start
          /\ progress = _load_progress(file_at_start)

C8_Witness ==
    /\ pc = "submit"
    /\ IsSet(target_category) /\ IsSet(target_subcategory)
    /\ Len(libraries_to_process) = 1
    /\ \E it \in Range(libraries_data) :
          it.category = target_category /\ it.subcategory /= target_subcategory

\* C9: every submitted item gets exactly one ledger update, 'completed' when its
\* processing returned success and no exception was raised while its result was
\* consumed, 'failed' otherwise; and no exception stops the consuming loop: the
\* run never ends in an error once tasks have been submitted.
C9_BatchCompletion ==
    /\ pc = "error" => futures = <<>>
    /\ pc = "done" =>
          \A i \in DOMAIN futures :
              /\ futures[i].updates = 1
              /\ futures[i].marked =
                    IF futures[i].success /\ ~futures[i].exc
                      THEN "completed" ELSE "failed"

\* C10: constructing the ProgressTracker never raises; for a missing tracking
\* file and for every unreadable or corrupt one the ledger starts as an empty
\* mapping.
C10_LoadFailsSoft ==
    progress.kind /= "none" =>
        /\ progress.kind = "dict"
        /\ (pc = "enumerate" /\ file_at_start.kind /= "valid")
              => progress.map = EmptyLedger

------------------------------------------------------------------------------
(* process_single_library in detail: lookup, rate limiter, synthesis with      *)
(* retry, file emission.  One record per pool thread.                          *)

Threads == 1..max_workers

\* prompt is the branch of line 321 the synthesis took, doc the outcome of
\* create_mdc_file
NewWorker == [pc |-> "mkdir", lookup_attempts |-> 0, lookup |-> "none",
              synth_attempts |-> 0, synth_ok |-> FALSE, wake |-> 0,
              success |-> FALSE, prompt |-> "none", doc |-> "none"]

Returned(w, ok) == [w EXCEPT !.pc = "returned", !.success = ok]

\* stop=stop_after_attempt(CONFIG["api"]["max_retries"])   (166, 218)
ShouldStopLate(attempt) == attempt > max_retries

ShouldStop(attempt) == attempt >= max_retries

LookupRaiseEscapes(outcome) == outcome = "raise"

\* whether get_library_best_practices_exa lets an exception of the service call
\* out to its retry decorator: the except clause of 212-214 returns a result
LookupRaisesToRetry(outcome) == FALSE

\* exa_results as process_single_library hands it to the synthesis (457, 464):
\* the answer of a lookup that returned one, taken to be of 100 characters or
\* more; the empty result of 171, 210 and 214 otherwise
exa_results(lookup) ==
    [answer |-> IF lookup = "answer" THEN "enough" ELSE "", citations |-> <<>>]

\* len(exa_answer.strip()) < 100 and len(all_citation_text.strip()) < 200   (321)
from_scratch(results) == results.answer /= "enough" /\ results.citations = <<>>

\* ratelimit's check of the call counter against calls=   (217)
LimitNeverExceeded(n) == FALSE

LimitFromConfig(n) == n > CONFIG.rate_limit_calls

LimitExceeded(n) == n > rate_limit_calls

\* creation of the output directories (438-446); a raise is caught at 481
MkDirs(t) ==
    /\ workers[t].pc = "mkdir"
    /\ \/ workers' = [workers EXCEPT ![t].pc = "lookup"]
       \/ workers' = [workers EXCEPT ![t] = Returned(@, FALSE)]
    /\ UNCHANGED <<runVars, mainVars, exa_client, now, num_calls, last_reset, calls>>

\* get_library_best_practices_exa under its retry decorator (166-214, 457).
\* Without a client no call is made.  With one, exa_client.answer returns an
\* answer, returns nothing, or raises (as may the saving of the result); the
\* function catches the exception and returns the empty result, so the retry
\* decorator sees a normal return.  (An exception it let out would be retried
\* and, after the last attempt, reach the except clause of 481.)
Lookup(t) ==
    /\ workers[t].pc = "lookup"
    /\ IF exa_client = None
         THEN /\ workers' = [workers EXCEPT ![t].pc = "acquire", ![t].lookup = "empty"]
              /\ calls' = calls
         ELSE \E outcome \in {"answer", "empty", "raise"} :
                LET n == workers[t].lookup_attempts + 1
                IN  /\ calls' = [calls EXCEPT !.lookups[1] = @ + 1]
                    /\ IF LookupRaisesToRetry(outcome)
                         THEN workers' = [workers EXCEPT ![t] =
                                IF ShouldStop(n)
                                  THEN Returned([@ EXCEPT !.lookup_attempts = n,
                                                          !.lookup = "degraded"], FALSE)
                                  ELSE [@ EXCEPT !.lookup_attempts = n]]
                         ELSE workers' = [workers EXCEPT
                                ![t].lookup_attempts = n,
                                ![t].lookup = IF outcome = "raise"
                                                THEN "degraded" ELSE outcome,
                                ![t].pc = "acquire"]
    /\ UNCHANGED <<runVars, mainVars, exa_client, now, num_calls, last_reset>>

\* the wrapper of @limits around generate_mdc_rules_from_exa (216-217, 464):
\* under the limiter's lock, reset the counter when the period has elapsed,
\* count the call, and either let it through to the retry-wrapped function or
\* raise RateLimitException, on which @sleep_and_retry sleeps for the rest of
\* the period and calls again
LimiterAcquire(t) ==
    /\ workers[t].pc = "acquire"
    /\ LET period_remaining == rate_limit_period - (now - last_reset)
           reset == period_remaining <= 0
           n == (IF reset THEN 0 ELSE num_calls) + 1
       IN  /\ last_reset' = IF reset THEN now ELSE last_reset
           /\ num_calls' = n
           /\ IF LimitExceeded(n)
                THEN /\ workers' = [workers EXCEPT ![t].pc = "sleeping",
                                                   ![t].wake = now + period_remaining]
                     /\ calls' = [calls EXCEPT !.admitted = IF reset THEN 0 ELSE @]
                ELSE /\ workers' = [workers EXCEPT ![t].pc = "synth"]
                     /\ calls' = [calls EXCEPT
                                    !.admitted = (IF reset THEN 0 ELSE @) + 1]
    /\ UNCHANGED <<runVars, mainVars, exa_client, now>>

\* time.sleep(exception.period_remaining) of sleep_and_retry returns
Wake(t) ==
    /\ workers[t].pc = "sleeping"
    /\ now >= workers[t].wake
    /\ workers' = [workers EXCEPT ![t].pc = "acquire", ![t].wake = 0]
    /\ UNCHANGED <<runVars, mainVars, exa_client, now, num_calls, last_reset, calls>>

\* one attempt of the body of generate_mdc_rules_from_exa under its retry
\* decorator (218-222, 390-400): the completion call and the parsing succeed,
\* or raise; the except clause re-raises, the decorator tries again until
\* stop_after_attempt, and then the failure reaches process_single_library,
\* whose except clause returns (library_key, False).  synth_attempts is the
\* decorator's attempt number: it ends with a call that returns and stays as
\* the record of a call that failed.
SynthAttempt(t) ==
    /\ workers[t].pc = "synth"
    /\ LET n == workers[t].synth_attempts + 1
           branch == IF from_scratch(exa_results(workers[t].lookup))
                       THEN "knowledge" ELSE "exa"
       IN  \/ workers' = [workers EXCEPT ![t].synth_attempts = 0,
                                         ![t].synth_ok = TRUE,
                                         ![t].prompt = branch,
                                         ![t].pc = "write"]
           \/ workers' = [workers EXCEPT ![t] =
                  IF ShouldStop(n)
                    THEN Returned([@ EXCEPT !.synth_attempts = n,
                                            !.prompt = branch], FALSE)
                    ELSE [@ EXCEPT !.synth_attempts = n, !.prompt = branch]]
    /\ UNCHANGED <<runVars, mainVars, exa_client, now, num_calls, last_reset, calls>>

\* create_mdc_file for the rule (466-479): written, or a raise caught at 481
WriteFile(t) ==
    /\ workers[t].pc = "write"
    /\ \/ workers' = [workers EXCEPT ![t] = Returned([@ EXCEPT !.doc = "written"], TRUE)]
       \/ workers' = [workers EXCEPT ![t] = Returned([@ EXCEPT !.doc = "failed"], FALSE)]
    /\ UNCHANGED <<runVars, mainVars, exa_client, now, num_calls, last_reset, calls>>

\* the clock advances by one unit; the history of lookup calls keeps the
\* trailing window of rate_limit_period units.  The clock is followed
\* while a thread is inside process_single_library.
Tick ==
    /\ now < MaxTime
    /\ \E t \in DOMAIN workers : workers[t].pc /= "returned"
    /\ now' = now + 1
    /\ calls' = [calls EXCEPT !.lookups =
                    [i \in 1..rate_limit_period |-> IF i = 1 THEN 0 ELSE @[i - 1]]]
    /\ UNCHANGED <<runVars, mainVars, exa_client, num_calls, last_reset, workers>>

\* the pool threads, each entering process_single_library; the limiter as the
\* decorator leaves it when the module is loaded
InitItem ==
    /\ libraries_data = <<>>
    /\ tracking_file = FileOf("missing", EmptyLedger)
    /\ file_at_start = tracking_file
    /\ target_category = None
    /\ target_subcategory = None
    /\ target_library = None
    /\ Configured
    /\ RunStart
    /\ exa_client \in {None, "Exa"}
    /\ now = 0
    /\ num_calls = 0
    /\ last_reset = 0
    /\ workers = [t \in Threads |-> NewWorker]
    /\ calls = NoCalls

NextItem ==
    \/ \E t \in Threads : MkDirs(t)
    \/ \E t \in Threads : Lookup(t)
    \/ \E t \in Threads : LimiterAcquire(t)
    \/ \E t \in Threads : Wake(t)
    \/ \E t \in Threads : SynthAttempt(t)
    \/ \E t \in Threads : WriteFile(t)
    \/ Tick

SpecItem == InitItem /\ [][NextItem]_vars

------------------------------------------------------------------------------
(* main with its overrides, followed into the pool threads: the flags are      *)
(* written to CONFIG, the executor is built from CONFIG, and each thread runs  *)
(* process_single_library under the limiter the decorator built.               *)

\* a catalog with as many libraries as the configured pool has threads
PoolCatalog ==
    [i \in 1..max_workers |->
        CASE i = 1 -> Item("c1", "s1", "a")
          [] i = 2 -> Item("c1", "s1", "b")
          [] OTHER -> Item("c1", "s2", "a")]

Min(a, b) == IF a < b THEN a ELSE b

\* ThreadPoolExecutor(max_workers=max_workers) with max_workers read from CONFIG
\* (563, 566): submit starts a thread per task until the pool has max_workers
\* of them, and each thread enters process_single_library
PoolThreadsEnter ==
    /\ pc = "consume"
    /\ workers = <<>>
    /\ futures /= <<>>
    /\ workers' = [t \in 1..Min(CONFIG.max_workers, Len(futures)) |-> NewWorker]
    /\ UNCHANGED <<runVars, mainVars, exa_client, now, num_calls, last_reset, calls>>

\* --rate-limit absent or given with a value above the configured one, with the
\* configured pool or a pool of one thread given by --workers; no EXA_API_KEY,
\* so no lookup client
InitOverride ==
    /\ libraries_data = PoolCatalog
    /\ tracking_file = FileOf("missing", EmptyLedger)
    /\ file_at_start = tracking_file
    /\ target_category = None
    /\ target_subcategory = None
    /\ target_library = None
    /\ catalog_file = "ok"
    /\ test_mode = FALSE
    /\ args \in [workers : {NotGiven, Given(1)},
                 rate_limit : {NotGiven, Given(rate_limit_calls + 1)}]
    /\ CONFIG = LoadedConfig
    /\ documents = NoDocuments
    /\ test = NoTest
    /\ emit = NoEmit
    /\ progress = LoadedAs("none", EmptyLedger)
    /\ pc = "main"
    /\ libraries_to_process = <<>>
    /\ futures = <<>>
    /\ consumer = IdleConsumer
    /\ completed_before = {}
    /\ ItemIdle

NextOverride ==
    \/ MainStart
    \/ LoadCatalog
    \/ ProgressTrackerInit
    \/ BuildWorkList
    \/ SubmitAll
    \/ PoolThreadsEnter
    \/ \E t \in DOMAIN workers : MkDirs(t)
    \/ \E t \in DOMAIN workers : Lookup(t)
    \/ \E t \in DOMAIN workers : LimiterAcquire(t)
    \/ \E t \in DOMAIN workers : Wake(t)
    \/ \E t \in DOMAIN workers : SynthAttempt(t)
    \/ \E t \in DOMAIN workers : WriteFile(t)
    \/ Tick

SpecOverride == InitOverride /\ [][NextOverride]_vars

------------------------------------------------------------------------------
(* File emission for one library name and one rule: the file stem of line 469  *)
(* and the text of create_mdc_file.                                            *)

NameAlphabet == {"a", "B", "0", "-", " ", "!"}

\* the names 'React Router!' and '  --Foo--  '
ExampleNames == {<<"R", "e", "a", "c", "t", " ", "R", "o", "u", "t", "e", "r", "!">>,
                 <<" ", " ", "-", "-", "F", "o", "o", "-", "-", " ", " ">>}

Names == ExampleNames \cup UNION {[1..n -> NameAlphabet] : n \in 0..MaxName}

ContentParts == {Delimiter, Fence, FenceYaml, <<" ">>, <<"x">>, <<"-">>}

RECURSIVE Flatten(_)
Flatten(parts) == IF parts = <<>> THEN <<>> ELSE Head(parts) \o Flatten(Tail(parts))

Contents == {Flatten(p) : p \in UNION {[1..n -> ContentParts] : n \in 0..MaxParts}}

\* safe_name = ...   (469)
EmitSafeName ==
    /\ emit.stage = "start"
    /\ emit' = [emit EXCEPT !.stage = "named", !.safe_name = safe_name(emit.library)]
    /\ UNCHANGED <<runVars, itemVars, CONFIG, documents, test>>

\* create_mdc_file(rule, output_file)   (476, 402-429)
EmitCreateFile ==
    /\ emit.stage = "named"
    /\ emit' = [emit EXCEPT !.stage = "written", !.mdc_content = mdc_content(emit.rule)]
    /\ UNCHANGED <<runVars, itemVars, CONFIG, documents, test>>

EmitStart(n, c) == [library |-> n, rule |-> MDCRule("n", "*.x", "d", c),
                    stage |-> "start", safe_name |-> <<>>, mdc_content |-> <<>>]

\* every name with one content, and one name with every content
InitEmit ==
    /\ libraries_data = <<>>
    /\ tracking_file = FileOf("missing", EmptyLedger)
    /\ file_at_start = tracking_file
    /\ target_category = None
    /\ target_subcategory = None
    /\ target_library = None
    /\ NoOverrides
    /\ RunStart
    /\ ItemIdle
    /\ \/ \E n \in Names : emit = EmitStart(n, <<"x">>)
       \/ \E c \in Contents : emit = EmitStart(<<"a">>, c)

NextEmit ==
    \/ EmitSafeName
    \/ EmitCreateFile

SpecEmit == InitEmit /\ [][NextEmit]_vars

------------------------------------------------------------------------------
(* Claims about the per-item pipeline *)

RECURSIVE SumFrom(_, _, _)
SumFrom(f, lo, hi) == IF lo > hi THEN 0 ELSE f[lo] + SumFrom(f, lo + 1, hi)

\* C4 (as stated): over every sliding window of length T the number of
\* lookup-service calls of all workers is at most N.
C4_LookupRateBound ==
    SumFrom(calls.lookups, 1, rate_limit_period) <= rate_limit_calls

\* C4 (amended): the limiter guards generate_mdc_rules_from_exa: of the calls of
\* it made by all workers, the limiter has let through at most N since its last
\* reset, that is within the limiter's current window of length T; and a thread
\* waits for the limiter only between its lookup and its synthesis.
C4_SynthesisRateBound ==
    /\ calls.admitted <= rate_limit_calls
    /\ \A t \in DOMAIN workers :
          workers[t].pc = "sleeping" =>
              workers[t].lookup /= "none" /\ workers[t].synth_attempts = 0

C4_Witness ==
    /\ calls.admitted = rate_limit_calls
    /\ last_reset > 0
    /\ \E t \in DOMAIN workers : workers[t].pc = "sleeping"

\* C5: a synthesis that fails on every attempt is attempted exactly max_retries
\* times, never more, and then process_single_library reports the item failed.
C5_SynthesisRetryBound ==
    \A t \in DOMAIN workers :
        /\ workers[t].synth_attempts <= max_retries
        /\ (workers[t].pc = "returned" /\ workers[t].synth_attempts > 0
                /\ ~workers[t].synth_ok)
              => workers[t].synth_attempts = max_retries /\ ~workers[t].success

C5_Witness ==
    \E t \in DOMAIN workers :
        /\ workers[t].pc = "returned"
        /\ workers[t].synth_attempts = max_retries
        /\ ~workers[t].synth_ok
        /\ ~workers[t].success

\* C6: a lookup that was downgraded to the empty result because the service
\* call raised had been attempted max_retries times.
C6_LookupRetried ==
    \A t \in DOMAIN workers :
        workers[t].lookup = "degraded" => workers[t].lookup_attempts = max_retries

LookupFailed(w) == w.lookup = "degraded" \/ (exa_client = None /\ w.lookup = "empty")

\* C12: when there is no lookup client, or the lookup call raised, the worker
\* does not return before synthesis has been invoked, the synthesis takes the
\* 'generate from model knowledge' branch, and the result the worker returns is
\* success exactly when the synthesis returned a rule and the file was written.
C12_LookupFailureNotItemFailure ==
    \A t \in DOMAIN workers :
        LookupFailed(workers[t]) =>
            /\ workers[t].prompt \in {"none", "knowledge"}
            /\ workers[t].pc \in {"write", "returned"} => workers[t].prompt = "knowledge"
            /\ workers[t].pc = "returned" =>
                  workers[t].success = (workers[t].synth_ok /\ workers[t].doc = "written")

C12_Witness ==
    /\ \E t \in DOMAIN workers :
          /\ workers[t].lookup = "degraded"
          /\ workers[t].pc = "returned"
          /\ workers[t].prompt = "knowledge"
          /\ workers[t].success
    /\ \E t \in DOMAIN workers :
          /\ workers[t].lookup = "answer"
          /\ workers[t].prompt = "exa"

------------------------------------------------------------------------------
(* Claims about main, the catalog file and test mode *)

DefaultTestItem == Item("frontend_frameworks", "react", "react")

Loaded == _load_progress(file_at_start)

OtherKeysAsLoaded(key) ==
    \A k \in (DOMAIN progress.map) \cup (DOMAIN Loaded.map) :
        k /= key => Get(progress.map, k) = Get(Loaded.map, k)

\* C11 (as stated): a test-mode run with no explicit target designates
\* frontend_frameworks/react/react, and every test-mode run that ends, whatever
\* the catalog, has processed exactly one item and updated exactly one ledger key.
C11_TestModeAlwaysOne ==
    (test_mode /\ pc = "done") =>
        /\ NoFilters => test.item = DefaultTestItem
        /\ test.item /= NoItem
        /\ test.pc = "marked"
        /\ library_key(test.item) \in DOMAIN progress.map
        /\ OtherKeysAsLoaded(library_key(test.item))

\* C11 (amended): a test-mode run submits nothing to the pool; with no explicit
\* target it designates frontend_frameworks/react/react; when the catalog lists
\* the designated library the run processes it, and only it, in the main thread
\* and ends with that one key marked by the result and saved, every other key as
\* loaded; when the catalog does not list it the run ends with no item
\* processed, no document written and the ledger and its file as loaded.
C11_TestModeOneIfListed ==
    test_mode =>
        /\ futures = <<>> /\ libraries_to_process = <<>>
        /\ test.item /= NoItem =>
              /\ test.item = TestItem
              /\ InCatalog(libraries_data, test.item)
              /\ progress.kind /= "raised"
              /\ OtherKeysAsLoaded(library_key(test.item))
        /\ (NoFilters /\ InCatalog(libraries_data, DefaultTestItem) /\ pc = "done")
              => test.item = DefaultTestItem
        /\ pc = "done" =>
              IF InCatalog(libraries_data, TestItem)
                THEN /\ test.pc = "marked"
                     /\ Get(progress.map, library_key(TestItem)) =
                            (IF test.success THEN "completed" ELSE "failed")
                     /\ tracking_file = FileOf("valid", progress.map)
                ELSE /\ test.pc = "notfound"
                     /\ test.item = NoItem
                     /\ documents = NoDocuments
                     /\ progress = Loaded
                     /\ tracking_file = file_at_start

C11_Witness ==
    /\ test_mode /\ pc = "done" /\ NoFilters
    /\ test.pc = "marked"
    /\ test.item = DefaultTestItem
    /\ Len(libraries_data) > 1
    /\ Get(progress.map, library_key(DefaultTestItem)) = "completed"

\* C13: when the catalog file is missing or cannot be read or parsed, the run
\* stops at main's or process_libraries_json's error log: the tracker is never
\* constructed, no item is put in the work list or submitted to the pool, none is
\* processed in test mode (so no external call is made), no document is written
\* and the tracking file is as the run found it.
C13_CatalogFailureFatal ==
    catalog_file /= "ok" =>
        /\ pc \in {"main", "load", "aborted", "error"}
        /\ pc = "aborted" <=> (catalog_file = "missing" /\ pc /= "main")
        /\ progress.kind = "none"
        /\ libraries_to_process = <<>>
        /\ futures = <<>>
        /\ test = NoTest
        /\ workers = <<>> /\ calls = NoCalls
        /\ documents = NoDocuments
        /\ tracking_file = file_at_start

C13_Witness ==
    /\ catalog_file = "malformed"
    /\ pc = "error"
    /\ test_mode
    /\ file_at_start.kind = "valid"
    /\ file_at_start.data /= EmptyLedger

\* the text holds the piece (an interpolated field), or the run of characters
HasPiece(text, piece) == \E i \in DOMAIN text : text[i] = piece

HasRun(text, chars) == \E i \in 0..(Len(text) - Len(chars)) : MatchAt(text, chars, i)

\* the items that were processed with success, no call for them failing and no
\* exception raised while their result was recorded, in a run that has ended
\* normally: by the pool, or as the designated item of test mode
Succeeded ==
    IF pc /= "done" THEN {}
    ELSE {[item |-> futures[i].item, rule |-> futures[i].rule] : i \in
            {i \in DOMAIN futures :
                \A j \in TasksOf(library_key(futures[i].item)) :
                    futures[j].success /\ ~futures[j].exc}}
         \cup {[item |-> test.item, rule |-> test.rule] : x \in
                {x \in {1} : test.pc = "marked" /\ test.success}}

\* the path and the cleaned content the two libraries of these runs must get
ExpectedPath(it) ==
    IF it.library = "A b" THEN "out/c1/s1/a-b.mdc"
    ELSE "out/frontend_frameworks/react/react.mdc"

\* C14 (as stated): at the end of the run every such item has its key
\* 'completed' in the ledger and a document at
\* outputDir/category/subcategory/<sanitized-name>.mdc whose text contains the
\* description, the glob pattern and the content that the synthesis returned.
C14_EndToEndVerbatim ==
    \A e \in Succeeded :
        /\ Get(progress.map, library_key(e.item)) = "completed"
        /\ ExpectedPath(e.item) \in DOMAIN documents
        /\ HasPiece(documents[ExpectedPath(e.item)], e.rule.description)
        /\ HasPiece(documents[ExpectedPath(e.item)], e.rule.glob_pattern)
        /\ HasRun(documents[ExpectedPath(e.item)], e.rule.content)

\* C14 (amended): at the end of the run every such item has its key
\* 'completed' in the ledger, in memory and in the tracking file, and a document
\* at outputDir/category/subcategory/<sanitized-name>.mdc whose text contains the
\* returned description and glob pattern and ends with the returned content as
\* cleaned: trimmed, without code-fence markers and without a leading
\* front-matter block (here "x y" for both rules).
C14_EndToEndCleaned ==
    \A e \in Succeeded :
        /\ Get(progress.map, library_key(e.item)) = "completed"
        /\ tracking_file.kind = "valid"
        /\ Get(tracking_file.data, library_key(e.item)) = "completed"
        /\ ExpectedPath(e.item) \in DOMAIN documents
        /\ LET text == documents[ExpectedPath(e.item)]
           IN  /\ HasPiece(text, e.rule.description)
               /\ HasPiece(text, e.rule.glob_pattern)
               /\ SubSeq(text, 6, Len(text)) = <<"x", " ", "y">>

C14_Witness ==
    /\ pc = "done"
    /\ ~test_mode
    /\ Get(Loaded.map, "c1/s1/A b") = "failed"
    /\ \E e \in Succeeded :
          /\ e.item.library = "A b"
          /\ ~HasRun(documents[ExpectedPath(e.item)], e.rule.content)
          /\ Get(tracking_file.data, "c1/s1/A b") = "completed"

------------------------------------------------------------------------------
(* Claims about the ledger during dispatch *)

\* a step of a pool thread: a task starts, or process_single_library returns
WorkerStep ==
    \E i \in DOMAIN futures :
        /\ i \in DOMAIN futures'
        /\ futures[i].state \in {"queued", "running"}
        /\ futures'[i].state /= futures[i].state

\* a step of the thread that runs process_libraries_json
MainThreadStep == pc' /= pc \/ consumer' /= consumer \/ test' /= test

\* C17: a step of a pool thread changes neither the ledger nor the tracking
\* file; every change of either is a step of the one thread that runs
\* process_libraries_json, which is inside at most one mark_* call at a time; and
\* between two such calls the tracking file holds the mark of every result
\* consumed so far, however many tasks have finished in the meantime.
C17_SingleLedgerWriter ==
    /\ [][WorkerStep => (progress' = progress /\ tracking_file' = tracking_file)]_vars
    /\ [][(progress' /= progress \/ tracking_file' /= tracking_file)
              => MainThreadStep]_vars
    /\ [](consumer.pc /= "idle" =>
              /\ pc = "consume"
              /\ consumer.cur \in DOMAIN futures
              /\ futures[consumer.cur].state = "done")
    /\ []((pc = "consume" /\ consumer.pc = "idle") =>
              \A i \in DOMAIN futures :
                  futures[i].state = "consumed" =>
                      /\ tracking_file = FileOf("valid", progress.map)
                      /\ library_key(futures[i].item) \in DOMAIN tracking_file.data)

C17_Witness ==
    /\ pc = "consume"
    /\ consumer.pc = "dump"
    /\ \E i \in DOMAIN futures :
          /\ consumer.cur /= i
          /\ futures[i].state = "done"
          /\ futures[consumer.cur].state = "done"

------------------------------------------------------------------------------
(* Claims about file emission *)

\* s without its longest prefix and suffix made of characters in chars
Trimmed(s, chars) ==
    LET keep == {i \in 1..Len(s) : s[i] \notin chars}
    IN  IF keep = {} THEN <<>>
        ELSE SubSeq(s, CHOOSE i \in keep : \A j \in keep : i <= j,
                       CHOOSE i \in keep : \A j \in keep : j <= i)

Allowed == {"a", "b", "c", "d", "e", "f", "g", "h", "i", "j", "k", "l", "m", "n",
            "o", "p", "q", "r", "s", "t", "u", "v", "w", "x", "y", "z",
            "0", "1", "2", "3", "4", "5", "6", "7", "8", "9", "-"}

\* the lower-cased name with every maximal run of characters outside
\* [a-z0-9-] replaced by one '-': the positions that yield a character are
\* those of the allowed characters and the first position of each run
RunsReplaced(name) ==
    LET low  == [i \in DOMAIN name |-> lower(name[i])]
        kept == {i \in 1..Len(low) :
                    low[i] \in Allowed \/ i = 1 \/ low[i - 1] \in Allowed}
        nth(j) == CHOOSE i \in kept : Cardinality({k \in kept : k <= i}) = j
    IN  [j \in 1..Cardinality(kept) |->
            IF low[nth(j)] \in Allowed THEN low[nth(j)] ELSE "-"]

\* C15: the file stem computed for a name is the lower-cased name with every
\* maximal run of characters outside [a-z0-9-] replaced by a single '-' and the
\* leading and trailing '-' stripped; 'React Router!' gives 'react-router' and
\* '  --Foo--  ' gives 'foo'.
C15_FilenameSanitization ==
    /\ emit.stage \in {"named", "written"} =>
          emit.safe_name = Trimmed(RunsReplaced(emit.library), {"-"})
    /\ (emit.stage = "named" /\ Str(emit.library) = "React Router!")
          => Str(emit.safe_name) = "react-router"
    /\ (emit.stage = "named" /\ Str(emit.library) = "  --Foo--  ")
          => Str(emit.safe_name) = "foo"

C15_Witness ==
    /\ emit.stage = "named"
    /\ Str(emit.library) = "  --Foo--  "
    /\ Str(emit.safe_name) = "foo"

\* the delimiter '---' occurs in s at index i, counted from 0
DelimiterAt(s, i) ==
    i + 3 <= Len(s) /\ s[i + 1] = "-" /\ s[i + 2] = "-" /\ s[i + 3] = "-"

\* the content part of a written text: what follows its five header pieces
Body(text) == SubSeq(text, 6, Len(text))

\* C16: when the content, after the code-fence markers are removed and it is
\* trimmed, begins with '---' and holds a second '---' after the first, the
\* written content is what follows the first such second delimiter (trimmed):
\* everything up to and including it is removed; otherwise the written content
\* is that cleaned content as it is.
C16_FrontMatterStripping ==
    emit.stage = "written" =>
        LET c == clean_content(emit.rule.content)
            seconds == {i \in 3..Len(c) : DelimiterAt(c, i)}
        IN  IF DelimiterAt(c, 0) /\ seconds /= {}
              THEN LET m == CHOOSE i \in seconds : \A j \in seconds : i <= j
                   IN  Body(emit.mdc_content)
                          = Trimmed(SubSeq(c, m + 4, Len(c)), WhiteSpace)
              ELSE Body(emit.mdc_content) = c

C16_Witness ==
    /\ emit.stage = "written"
    /\ emit.rule.content = FenceYaml \o Delimiter \o <<"x">> \o Delimiter \o <<"x">>
    /\ Body(emit.mdc_content) = <<"x">>

------------------------------------------------------------------------------
(* Claims about the worker pool *)

\* maxWorkers of a run: the value of --workers when one was given and is not
\* zero, the configured value otherwise
PoolSize ==
    IF args.workers.given /\ args.workers.value > 0
      THEN args.workers.value ELSE max_workers

Dispatching == pc = "consume" /\ ~test_mode

\* C18: once the tasks are submitted there is exactly one task per element of
\* the work list, in its order, and at every moment the number of tasks being
\* processed is at most maxWorkers, the configured value or the one given by
\* --workers; a task waits in the queue only while the pool is full.
C18_BoundedPool ==
    /\ Cardinality(Running) <= PoolSize
    /\ Dispatching =>
          /\ CONFIG.max_workers = PoolSize
          /\ Len(futures) = Len(libraries_to_process)
          /\ \A i \in DOMAIN futures : futures[i].item = libraries_to_process[i]
    /\ (pc = "done" /\ ~test_mode) =>
          /\ Len(futures) = Len(libraries_to_process)
          /\ \A i \in DOMAIN futures : futures[i].state = "consumed"

\* the pool of one thread given by --workers 1 is full: one task runs and
\* another waits
C18_Witness ==
    /\ Dispatching
    /\ args.workers = Given(1)
    /\ PoolSize < max_workers
    /\ Cardinality(Running) = PoolSize
    /\ Queued /= {}

------------------------------------------------------------------------------
(* Claims about the persistence of the ledger *)

\* some call of mark_library_completed or mark_library_failed has returned
MarkReturned ==
    \/ \E i \in DOMAIN futures : futures[i].updates > 0
    \/ test.pc = "marked"

\* the main thread is between the assignment of a mark_* call and the end of
\* its save_progress
InsideMark == consumer.pc /= "idle" \/ test.pc \in {"open", "dump"}

\* the tracker was constructed and no exception has left the function
Tracking == pc \in {"test", "enumerate", "submit", "consume", "done"}

\* C19: outside a mark_* call, once one has returned, the tracking file is a
\* valid file whose content is the whole in-memory ledger, the keys the run did
\* not touch included; and the ledger differs from what the run loaded only
\* after such a call: no update waits in memory for a later save.
C19_PersistOnEveryUpdate ==
    /\ (Tracking /\ MarkReturned /\ ~InsideMark) =>
          /\ tracking_file = FileOf("valid", progress.map)
          /\ \A i \in DOMAIN futures :
                futures[i].updates > 0 =>
                   Get(tracking_file.data, library_key(futures[i].item))
                       \in {"completed", "failed"}
    /\ (Tracking /\ ~MarkReturned /\ ~InsideMark /\ progress.kind = "dict") =>
          /\ tracking_file = file_at_start
          /\ progress.map = _load_progress(file_at_start).map

\* a failed item was marked and saved over a file that held other keys, while
\* another result waits to be consumed
C19_Witness ==
    /\ pc = "consume"
    /\ consumer.pc = "idle"
    /\ tracking_file /= file_at_start
    /\ tracking_file = FileOf("valid", progress.map)
    /\ \E i, j \in DOMAIN futures :
          /\ futures[i].state = "consumed"
          /\ futures[i].marked = "failed"
          /\ futures[j].state = "done"
          /\ library_key(futures[j].item) \notin DOMAIN progress.map

------------------------------------------------------------------------------
(* Claims about the keys of the ledger *)

\* the keys whose entry a step adds or changes
Written == {k \in DOMAIN progress'.map :
               k \notin DOMAIN progress.map \/ progress'.map[k] /= progress.map[k]}

\* C20: no step of a run removes a key from the in-memory ledger; once the
\* ledger is loaded a step adds or overwrites at most one key, the status it
\* stores is "completed" or "failed", and every other entry is left as it was.
C20_KeysNeverRemoved ==
    [][/\ DOMAIN progress.map \subseteq DOMAIN progress'.map
       /\ Tracking =>
             /\ progress'.kind = progress.kind
             /\ Cardinality(Written) <= 1
             /\ \A k \in Written : progress'.map[k] \in {"completed", "failed"}
             /\ Written /= {} => InsideMark']_vars

\* at the end of a run one loaded entry was overwritten, another key was
\* added, and both are in the ledger
C20_Witness ==
    /\ pc = "done"
    /\ file_at_start.kind = "valid"
    /\ \E k \in DOMAIN file_at_start.data :
          /\ k \in DOMAIN progress.map
          /\ progress.map[k] /= file_at_start.data[k]
    /\ \E k \in DOMAIN progress.map : k \notin DOMAIN file_at_start.data

------------------------------------------------------------------------------
(* Claims about the order of document and ledger writes *)

\* the tasks of a key, and the item the run processes under it
TasksFor(k) == {i \in DOMAIN futures : library_key(futures[i].item) = k}

ItemsFor(k) == {futures[i].item : i \in TasksFor(k)}
                  \cup {it \in {test.item} : library_key(it) = k}

\* the document of an item is on disk, whole
DocumentWritten(it) ==
    /\ output_file(it) \in DOMAIN documents
    /\ \E rule \in Rules(it) : documents[output_file(it)] = mdc_content(rule)

\* C21: a step that sets a key to "completed" finds the document of that key
\* written in full, and no processing of the key that has yet to write it.
C21_DocumentBeforeMark ==
    [][\A k \in Written :
          progress'.map[k] = "completed" =>
             /\ \A it \in ItemsFor(k) : DocumentWritten(it)
             /\ \A i \in TasksFor(k) : futures[i].state \notin {"queued", "running"}]_vars

------------------------------------------------------------------------------
(* Claims about the frame of a run *)

\* the ledger as the run loaded it
LoadedLedger == _load_progress(file_at_start).map

\* the keys of the catalog entries a filter excludes
FilteredOutKeys ==
    {library_key(it) : it \in {x \in Range(libraries_data) :
        \/ IsSet(target_category) /\ x.category /= target_category
        \/ IsSet(target_subcategory) /\ x.subcategory /= target_subcategory
        \/ IsSet(target_library) /\ x.library /= target_library}}

SameAsLoaded(k) == Get(progress.map, k) = Get(LoadedLedger, k)

\* C22: in a run without --test, from the moment the ledger is loaded to the
\* end of the run, every key whose status differs from the loaded one is a key
\* of the work list; a key loaded as "completed", a key of an entry a filter
\* excludes and a key the catalog does not name keep their loaded status, and
\* so they do in the tracking file the run leaves.
C22_DispatchFrame ==
    (~test_mode /\ progress.kind = "dict"
                /\ pc \in {"enumerate", "submit", "consume", "done", "error"}) =>
        /\ \A k \in MainKeys :
              /\ ~SameAsLoaded(k) => k \in WorkKeys
              /\ Get(LoadedLedger, k) = "completed" => SameAsLoaded(k)
              /\ k \in FilteredOutKeys => SameAsLoaded(k)
              /\ k \notin CatalogKeys => SameAsLoaded(k)
        /\ pc \in {"done", "error"} =>
              \A k \in MainKeys \ WorkKeys :
                  Get(tracking_file.data, k) = Get(file_at_start.data, k)

\* a run filtered by category ends: the key it processed has a new status, and
\* the key of the excluded category, loaded as "failed", still has that status
C22_Witness ==
    /\ ~test_mode
    /\ pc = "done"
    /\ target_category = "c1"
    /\ "frontend_frameworks/react/react" \in FilteredOutKeys
    /\ Get(LoadedLedger, "frontend_frameworks/react/react") = "failed"
    /\ Get(tracking_file.data, "frontend_frameworks/react/react") = "failed"
    /\ Get(LoadedLedger, "c1/s1/A b") = "failed"
    /\ Get(tracking_file.data, "c1/s1/A b") = "completed"

------------------------------------------------------------------------------
(* Claims about test mode and the ledger *)

TestKey == library_key(TestItem)

\* the status a finished processing is recorded with
StatusOf(success) == IF success THEN "completed" ELSE "failed"

\* C23: a --test run whose designated library is in the catalog processes it
\* whatever the ledger says of its key, builds no work list, and records the
\* result over the loaded status: once the mark_* call has made its assignment
\* the ledger holds "failed" for a failed processing, also over a loaded
\* "completed", and once the call has returned so does the tracking file.
C23_TestModeIgnoresLedger ==
    (test_mode /\ pc \in {"test", "done"}) =>
        /\ libraries_to_process = <<>> /\ futures = <<>>
        /\ (pc = "done" /\ InCatalog(libraries_data, TestItem)) =>
              test.pc = "marked" /\ test.item = TestItem
        /\ test.pc \in {"open", "dump", "marked"} =>
              Get(progress.map, TestKey) = StatusOf(test.success)
        /\ test.pc = "marked" =>
              Get(tracking_file.data, TestKey) = StatusOf(test.success)

\* the designated library was loaded as "completed", its processing failed and
\* the tracking file now says "failed"
C23_Witness ==
    /\ test_mode
    /\ pc = "done"
    /\ test.pc = "marked"
    /\ ~test.success
    /\ Get(LoadedLedger, TestKey) = "completed"
    /\ Get(tracking_file.data, TestKey) = "failed"

------------------------------------------------------------------------------
(* Claims about the overrides of main *)

\* main has written its overrides to CONFIG
Overrode == pc \notin {"main"}

==============================================================================
